---------------------------- MODULE Spec2Model ----------------------------
(* Model of src/script.js: the load callback of the co-authorship force      *)
(* layout (statistics deriver, colour encoder, scene builder, legend) and    *)
(* the event handlers it installs (click tooltip, drag, tick).               *)
(*                                                                           *)
(* JavaScript values: `undefined` is the string NoVal; the empty string is   *)
(* "".  Coordinates are integers (pixels); alpha values are in thousandths.  *)
EXTENDS Integers, Sequences, FiniteSets, TLC

VARIABLES
  pc,            \* "loading" | "ready" | "threw" | "rejected"
  rawDefined,    \* whether the free identifier `raw` resolves to a global
  raw,           \* the value of the global `raw` when it resolves
  graph,         \* the payload handed to the .then callback
  nodes,         \* const nodes: copies of raw.nodes with their degree
  links,         \* const links: copies of raw.links, their source and target
                 \* replaced by node references once forceLink is initialized
  sortedCountries, \* [{country, n}] sorted by descending n
  top10,         \* Set of the first ten countries
  circles,       \* one record per <circle>: r (hundredths), fill, cx, cy, dim
  lines,         \* one record per <line>: x1, y1, x2, y2, dim
  legend,        \* rows of #legend: swatch colour, country, n
  legendRenders, \* how many times the legend has been rendered
  errorShown,    \* an error indication is present in the page
  simCreated,    \* createSimulation() has returned
  width, height, \* clientWidth / clientHeight of #chart
  sliders,       \* value of the range inputs #charge, #collide, #linkStrength
  labels,        \* text of #chargeVal, #collideVal, #linkStrengthVal
  forces,        \* strength of charge / link forces, collide radius multiplier
  center,        \* target of the centering force
  x, y,          \* d.x, d.y per node index
  fx, fy,        \* d.fx, d.fy per node index (Null when null/undefined)
  gestures,      \* d3-drag: gesture identifier -> node index being dragged, 0 if none
  alpha,         \* sim.alpha() in thousandths
  alphaTarget,   \* sim.alphaTarget() in thousandths
  running,       \* the simulation's timer is running
  tipHidden,     \* #tooltip has class "hidden"
  tipHtml,       \* #tooltip innerHTML, as the sequence of lines joined by <br/>
  tipListener,   \* body's click.tooltip listeners, in the order installed: the node
                 \* whose click installed each, and whether a later click has begun (age 1)
  lastClick,     \* history: the target of the last click, the node clicked (0 if
                 \* none) and the node whose tooltip was showing then (0 if none)
  hovered        \* the node the pointer is over, 0 if none

vars == << pc, rawDefined, raw, graph, nodes, links, sortedCountries, top10,
           circles, lines, legend, legendRenders, errorShown, simCreated,
           width, height, sliders, labels, forces, center, x, y, fx, fy,
           gestures, alpha, alphaTarget, running,
           tipHidden, tipHtml, tipListener, lastClick, hovered >>

\* what only the load callback writes
loadVars == << rawDefined, raw, graph, nodes, links, sortedCountries, top10,
               legend, legendRenders, errorShown, simCreated >>
\* what the tooltip and hover handlers write
tipVars == << tipHidden, tipHtml, tipListener, lastClick, hovered >>
\* what the simulation, drag, slider and resize handlers write
simVars == << width, height, sliders, labels, forces, center, x, y, fx, fy,
              gestures, alpha, alphaTarget, running >>

-----------------------------------------------------------------------------
(* Bounds of the model *)

MaxNodes == 2
MaxLinks == 2
\* links of the graphs the click and hover handlers are run on
MaxTipLinks == 1
\* authors added to a list that names eleven countries once each
MaxExtra == 2

-----------------------------------------------------------------------------
(* JavaScript values *)

NoVal == "<undefined>"

\* JavaScript truthiness of a string-or-undefined value
Truthy(v) == v # NoVal /\ v # ""

FALLBACK_GRAY == "#A9A9A9"

\* d3.schemeTableau10
SchemeTableau10 ==
  << "#4e79a7", "#f28e2c", "#e15759", "#76b7b2", "#59a14f",
     "#edc949", "#af7aa1", "#ff9da7", "#9c755f", "#bab0ab" >>

TopN == 10

Min(a, b) == IF a < b THEN a ELSE b
Max(a, b) == IF a > b THEN a ELSE b

-----------------------------------------------------------------------------
(* Inputs: the graphs the JSON document / the global may hold *)

Names        == { NoVal, "Ada" }
Affiliations == { NoVal, "MIT" }
Countries    == { NoVal, "", "A", "B" }

\* The optional fields of a node come in these combinations
Profiles ==
  { [name |-> n, affiliation |-> a, country |-> c] :
      n \in Names, a \in Affiliations, c \in Countries }

NodeOf(i, p) ==
  [id |-> i, name |-> p.name, affiliation |-> p.affiliation, country |-> p.country]

LinkSeqs(n, maxLinks) ==
  UNION { [1..k -> [source : 1..n, target : 1..n]] : k \in 0..maxLinks }

\* Well-formed graphs: ids 1..n are unique, links reference existing ids
GraphsWith(P, maxLinks) ==
  UNION { { [nodes |-> [i \in 1..n |-> NodeOf(i, ps[i])], links |-> ls] :
              ps \in [1..n -> P], ls \in LinkSeqs(n, maxLinks) } : n \in 0..MaxNodes }

CountryProfiles == { p \in Profiles : p.name = NoVal /\ p.affiliation = NoVal }

EmptyGraph == [nodes |-> << >>, links |-> << >>]

-----------------------------------------------------------------------------
(* Statistics deriver *)

\* links.flatMap(l => [l.source, l.target])
RECURSIVE FlatMapEndpoints(_)
FlatMapEndpointsSourceOnly(ls) == [i \in 1..Len(ls) |-> ls[i].source]
FlatMapEndpoints(ls) ==
  IF ls = << >> THEN << >>
  ELSE << Head(ls).source, Head(ls).target >> \o FlatMapEndpoints(Tail(ls))

\* position of key k in an InternMap kept as a sequence of [key, n], 0 if absent
MapIndex(m, k) ==
  IF \E i \in 1..Len(m) : m[i].key = k
  THEN CHOOSE i \in 1..Len(m) : m[i].key = k
  ELSE 0

\* d3.rollup(values, v => v.length, d => d): insertion-ordered map key -> count
RECURSIVE RollupInto(_, _)
RollupInto(keys, m) ==
  IF keys = << >> THEN m
  ELSE LET k == Head(keys)
           i == MapIndex(m, k)
       IN RollupInto(Tail(keys),
            IF i = 0 THEN Append(m, [key |-> k, n |-> 1])
            ELSE [m EXCEPT ![i].n = @ + 1])

RollupCount(keys) == RollupInto(keys, << >>)

\* degree.get(id) || 0
DegreeGetOrZero(m, id) ==
  LET i == MapIndex(m, id) IN IF i = 0 THEN 0 ELSE m[i].n

\* nodes.forEach(n => n.degree = degree.get(n.id) || 0)
WithDegrees(ns, ls) ==
  LET degree == RollupCount(FlatMapEndpoints(ls))
  IN [i \in 1..Len(ns) |->
        [id |-> ns[i].id, name |-> ns[i].name, affiliation |-> ns[i].affiliation,
         country |-> ns[i].country, degree |-> DegreeGetOrZero(degree, ns[i].id)]]

\* d => d.country || 'Unknown'
CountryKey(d) == IF Truthy(d.country) THEN d.country ELSE "Unknown"

\* d3.rollup(nodes, v => v.length, d => d.country || 'Unknown')
ByCountry(ns) == RollupCount([i \in 1..Len(ns) |-> CountryKey(ns[i])])

\* Array.prototype.sort with d3.descending on n: stable insertion of one row
RECURSIVE InsertDescending(_, _)
RECURSIVE InsertDescendingUnstable(_, _)
InsertDescendingUnstable(row, sorted) ==
  IF sorted = << >> THEN << row >>
  ELSE IF Head(sorted).n <= row.n THEN << row >> \o sorted
  ELSE << Head(sorted) >> \o InsertDescendingUnstable(row, Tail(sorted))
InsertDescending(row, sorted) ==
  IF sorted = << >> THEN << row >>
  ELSE IF Head(sorted).n < row.n THEN << row >> \o sorted
  ELSE << Head(sorted) >> \o InsertDescending(row, Tail(sorted))

RECURSIVE SortDescending(_)
SortDescending(rows) ==
  IF rows = << >> THEN << >>
  ELSE InsertDescending(rows[Len(rows)], SortDescending(SubSeq(rows, 1, Len(rows) - 1)))

\* Array.from(byCountry, ([k, v]) => ({country: k, n: v})).sort(...)
SortedCountries(ns) ==
  LET m == ByCountry(ns)
  IN SortDescending([i \in 1..Len(m) |-> [country |-> m[i].key, n |-> m[i].n]])

\* sortedCountries.slice(0, 10)
Slice10(sc) == SubSeq(sc, 1, Min(TopN, Len(sc)))

\* new Set(sortedCountries.slice(0, 10).map(d => d.country))
Top10(sc) == { Slice10(sc)[i].country : i \in 1..Len(Slice10(sc)) }

\* d3.scaleOrdinal().domain(top ten countries).range(d3.schemeTableau10), applied to c
Color(sc, c) ==
  LET dom == Slice10(sc)
      i   == CHOOSE j \in 1..Len(dom) : dom[j].country = c
  IN SchemeTableau10[((i - 1) % Len(SchemeTableau10)) + 1]

\* d => top10.has(d.country) ? color(d.country) : FALLBACK_GRAY
Fill(sc, d) ==
  IF d.country \in Top10(sc) THEN Color(sc, d.country) ELSE FALLBACK_GRAY

\* RADIUS_RANGE = [3, 12], in hundredths of a pixel
RADIUS_RANGE == << 300, 1200 >>

\* Math.sqrt(d) in hundredths, rounded down
SqrtHundredths(d) ==
  CHOOSE k \in 0..(100 * d) : k * k <= 10000 * d /\ 10000 * d < (k + 1) * (k + 1)

\* d3.extent(nodes, d => d.degree), for at least one node
DegreeExtent(ns) ==
  << CHOOSE lo \in { ns[i].degree : i \in 1..Len(ns) } :
       \A i \in 1..Len(ns) : lo <= ns[i].degree,
     CHOOSE hi \in { ns[i].degree : i \in 1..Len(ns) } :
       \A i \in 1..Len(ns) : hi >= ns[i].degree >>

\* size(d): d3.scaleSqrt().domain(extent).range(RADIUS_RANGE), in hundredths.
\* d3 normalizes over the transformed domain and, where its two ends
\* coincide, maps every value to the middle of the range.
SizeNoDegenerateCase(extent, d) ==
  LET a == SqrtHundredths(extent[1])
      b == SqrtHundredths(extent[2]) - a
  IN IF b # 0
     THEN RADIUS_RANGE[1]
            + ((RADIUS_RANGE[2] - RADIUS_RANGE[1]) * (SqrtHundredths(d) - a)) \div b
     ELSE RADIUS_RANGE[1]
Size(extent, d) ==
  LET a == SqrtHundredths(extent[1])
      b == SqrtHundredths(extent[2]) - a
  IN IF b # 0
     THEN RADIUS_RANGE[1]
            + ((RADIUS_RANGE[2] - RADIUS_RANGE[1]) * (SqrtHundredths(d) - a)) \div b
     ELSE (RADIUS_RANGE[1] + RADIUS_RANGE[2]) \div 2

\* A link endpoint is an identifier, as in the document, or a reference to
\* the node at an index of nodes.
IdRef(k) == [kind |-> "id", v |-> k]
NodeRef(i) == [kind |-> "node", v |-> i]

\* raw.links.map(d => ({ ...d }))
CopyLinks(ls) ==
  [i \in 1..Len(ls) |-> [source |-> IdRef(ls[i].source), target |-> IdRef(ls[i].target)]]

\* forceLink(links).id(d => d.id), initialized when the force is added to the
\* simulation: an endpoint that is an identifier becomes the node of that id
ResolveEndpoint(ns, e) ==
  IF e.kind = "id" THEN NodeRef(CHOOSE i \in 1..Len(ns) : ns[i].id = e.v) ELSE e
ResolveLinks(ns, ls) ==
  [i \in 1..Len(ls) |-> [source |-> ResolveEndpoint(ns, ls[i].source),
                         target |-> ResolveEndpoint(ns, ls[i].target)]]

\* legend rows: sortedCountries.slice(0, 10).forEach(row => ...)
LegendRows(sc) ==
  [i \in 1..Len(Slice10(sc)) |->
     [swatch |-> Color(sc, Slice10(sc)[i].country),
      country |-> Slice10(sc)[i].country, n |-> Slice10(sc)[i].n]]

-----------------------------------------------------------------------------
(* Simulation (d3-force) and pointer inputs *)

\* d.fx = null
Null == << >>
Some(v) == << v >>

\* forceSimulation(nodes): phyllotaxis start position of the node at index i
InitialPositions ==
  << <<7, 0>>, <<-9, 8>>, <<1, -16>>, <<11, 15>>, <<-21, -4>>, <<20, -13>>,
     <<-7, 25>>, <<-13, -24>>, <<27, 10>>, <<-28, 12>>, <<14, -29>>, <<10, 32>>,
     <<-31, -18>>, <<36, -8>>, <<-22, 31>>, <<-5, -39>> >>
InitialPosition(i) == InitialPositions[((i - 1) % Len(InitialPositions)) + 1]

\* positions the force integration may move a free node to in one step
PhysPoints == { <<0, 40>>, <<9, 9>> }

\* event.x, event.y of a drag move
DragPoints == { <<40, -5>> }

\* sizes #chart may have
Viewports == { <<20, 20>>, <<10, 30>> }

\* d3-drag gesture identifiers: the mouse and one touch
GestureIds == { "mouse", "touch0" }

\* values the range inputs may take
SliderNames == { "charge", "collide", "linkStrength" }
SliderValues(s) ==
  CASE s = "charge"       -> { -30, -100 }
    [] s = "collide"      -> { 1, 2 }
    [] s = "linkStrength" -> { 1, 0 }

ALPHA_INITIAL == 1000
ALPHA_MIN     == 1
ALPHA_SLIDER  == 600
ALPHA_RESIZE  == 300
ALPHA_TARGET_DRAG == 300
MARGIN == 6

\* the share of (alpha - alphaTarget) one step removes is 1 - 1/DecayDiv
DecayDiv == 1000

\* d3-force tick(): alpha += (alphaTarget - alpha) * alphaDecay
DecayedAlphaNoDecay(a, t) == a
DecayedAlpha(a, t) == t + ((a - t) \div DecayDiv)

\* Math.max(6, Math.min(WIDTH() - 6, d.x))
ClampNoLowerBound(v, size) == Min(size - MARGIN, v)
Clamp(v, size) == Max(MARGIN, Min(size - MARGIN, v))

\* the gestures that are dragging node i
DraggingGestures(i) == { g \in GestureIds : gestures[g] = i }

\* number of active gestures in a gesture map
ActiveCount(g) == Cardinality({ i \in DOMAIN g : g[i] # 0 })

-----------------------------------------------------------------------------
(* Tooltip *)

\* the lines array of the click handler, after .filter(Boolean)
TooltipLines(d) ==
  << "<strong>" \o (IF d.name # NoVal THEN d.name ELSE ToString(d.id)) \o "</strong>" >>
  \o (IF Truthy(d.affiliation) THEN << d.affiliation >> ELSE << >>)
  \o (IF Truthy(d.country) THEN << "Country: " \o d.country >> ELSE << >>)
  \o << "Degree: " \o ToString(d.degree) >>

\* event.composedPath() of the node click that installed the listener, read
\* when a later click runs the listener: that dispatch is over, the path is empty
StaleComposedPath == { }

\* the body's click.tooltip listener hides the tooltip on this click
ListenerHides == "tooltip" \notin StaleComposedPath

-----------------------------------------------------------------------------
(* Initial states: the page before the load settles *)

\* G: the graphs the document may hold; V: the sizes #chart may have.  Where a
\* global `raw` exists it holds the document's content.
InitWith(G, V) ==
  /\ pc = "loading"
  /\ rawDefined \in BOOLEAN
  /\ raw \in G
  /\ graph = raw
  /\ nodes = << >>
  /\ links = << >>
  /\ sortedCountries = << >>
  /\ top10 = { }
  /\ circles = << >>
  /\ lines = << >>
  /\ legend = << >>
  /\ legendRenders = 0
  /\ errorShown = FALSE
  /\ simCreated = FALSE
  /\ \E v \in V : width = v[1] /\ height = v[2]
  /\ sliders = [s \in SliderNames |-> CHOOSE v \in SliderValues(s) : TRUE]
  /\ labels = [s \in SliderNames |-> NoVal]
  /\ forces = [s \in SliderNames |-> 0]
  /\ center = << 0, 0 >>
  /\ x = << >>
  /\ y = << >>
  /\ fx = << >>
  /\ fy = << >>
  /\ gestures = [g \in GestureIds |-> 0]
  /\ alpha = 0
  /\ alphaTarget = 0
  /\ running = FALSE
  /\ tipHidden = TRUE
  /\ tipHtml = << >>
  /\ tipListener = << >>
  /\ lastClick = [target |-> "none", node |-> 0, shownBefore |-> 0]
  /\ hovered = 0

-----------------------------------------------------------------------------
(* The load: d3.json(...).then(graph => { ... }) *)

\* The promise resolves and the callback runs.  Its first statement reads the
\* free identifier `raw`: a ReferenceError unless a global of that name exists.
LoadResolved ==
  /\ pc = "loading"
  /\ IF ~rawDefined
     THEN /\ pc' = "threw"
          /\ UNCHANGED << loadVars, tipVars, simVars, circles, lines >>
     ELSE LET ns == WithDegrees(raw.nodes, raw.links)
              sc == SortedCountries(ns)
          IN /\ pc' = "ready"
             /\ nodes' = ns
             /\ links' = ResolveLinks(ns, CopyLinks(raw.links))
             /\ sortedCountries' = sc
             /\ top10' = Top10(sc)
             /\ labels' = [s \in SliderNames |-> ToString(sliders[s])]
             /\ circles' = [i \in 1..Len(ns) |->
                              [r |-> Size(DegreeExtent(ns), ns[i].degree),
                               fill |-> Fill(sc, ns[i]), cx |-> 0, cy |-> 0,
                               dim |-> FALSE]]
             /\ lines' = [i \in 1..Len(raw.links) |->
                            [x1 |-> 0, y1 |-> 0, x2 |-> 0, y2 |-> 0, dim |-> FALSE]]
             /\ x' = [i \in 1..Len(ns) |-> InitialPosition(i)[1]]
             /\ y' = [i \in 1..Len(ns) |-> InitialPosition(i)[2]]
             /\ fx' = [i \in 1..Len(ns) |-> Null]
             /\ fy' = [i \in 1..Len(ns) |-> Null]
             /\ forces' = sliders
             /\ center' = << width \div 2, height \div 2 >>
             /\ alpha' = ALPHA_INITIAL
             /\ alphaTarget' = 0
             /\ running' = TRUE
             /\ simCreated' = TRUE
             /\ legend' = LegendRows(sc)
             /\ legendRenders' = legendRenders + 1
             /\ UNCHANGED << rawDefined, raw, graph, errorShown, width, height,
                             sliders, gestures, tipVars >>

\* The fetch or the parse fails: the promise rejects, and no rejection handler
\* is attached to it.
LoadRejected ==
  /\ pc = "loading"
  /\ pc' = "rejected"
  /\ UNCHANGED << loadVars, tipVars, simVars, circles, lines >>

-----------------------------------------------------------------------------
(* Tooltip: node.on('click') and the body's click.tooltip listener *)

\* a click begins: every listener installed so far was installed by an earlier click
Aged(ls) == [i \in 1..Len(ls) |-> [ls[i] EXCEPT !.age = 1]]

\* the tooltip's state as a click finds it: class hidden, content, installed listeners
TipState == [hidden |-> tipHidden, html |-> tipHtml, listener |-> Aged(tipListener)]

\* selection.on('click.tooltip', listener, options): a listener of that type
\* and name that is installed is removed, then the new one is added
On(ls, l) == << l >>

\* body's click.tooltip listeners, run on tooltip state t.  Each was added with
\* once: true, so it is removed as it is called; it tests the path of the click
\* that installed it, so it always hides, and it removes itself by name
RunDismissListenerKeepsListener(t) ==
  IF t.listener = << >> THEN t
  ELSE [t EXCEPT !.hidden = IF ListenerHides THEN TRUE ELSE @]
RunDismissListener(t) ==
  IF t.listener = << >> THEN t
  ELSE [t EXCEPT !.hidden = IF ListenerHides THEN TRUE ELSE @, !.listener = << >>]

\* the node's click handler on tooltip state t: fill, show, install the listener
RunNodeClick(t, n) ==
  [hidden |-> FALSE, html |-> TooltipLines(nodes[n]),
   listener |-> On(t.listener, [node |-> n, age |-> 0])]

\* A click on node n.  The listener is registered with capture on body, so an
\* installed one runs before the node's handler; the one the handler installs
\* is not run by this click.
NodeClickOutcomeBubbling(n) == RunDismissListener(RunNodeClick(TipState, n))
NodeClickOutcome(n) == RunNodeClick(RunDismissListener(TipState), n)

\* the node whose tooltip is showing, 0 if it is hidden
Showing ==
  IF tipHidden \/ tipListener = << >> THEN 0 ELSE tipListener[Len(tipListener)].node

\* click on the circle of node n
ClickNode(n) ==
  /\ pc = "ready"
  /\ n \in 1..Len(nodes)
  /\ tipHtml' = NodeClickOutcome(n).html
  /\ tipHidden' = NodeClickOutcome(n).hidden
  /\ tipListener' = NodeClickOutcome(n).listener
  /\ lastClick' = [target |-> "node", node |-> n, shownBefore |-> Showing]
  /\ UNCHANGED << pc, loadVars, simVars, circles, lines, hovered >>

\* click on no node: on the tooltip itself, or on the rest of the page
ClickElsewhere(target) ==
  /\ pc = "ready"
  /\ target = "tooltip" => ~tipHidden
  /\ tipHidden' = RunDismissListener(TipState).hidden
  /\ tipListener' = RunDismissListener(TipState).listener
  /\ lastClick' = [target |-> target, node |-> 0, shownBefore |-> Showing]
  /\ UNCHANGED << pc, loadVars, simVars, circles, lines, tipHtml, hovered >>

-----------------------------------------------------------------------------
(* Hover: node.on('mouseover') / node.on('mouseleave') *)

\* id.id ?? id: the id of a node reference, an identifier as it is
EndpointId(e) == IF e.kind = "node" THEN nodes[e.v].id ELSE e.v

\* nodes.find(n => n.id === (id.id ?? id))?.country
IdToCountryIdOnly(e) ==
  IF e.kind = "id" /\ \E i \in 1..Len(nodes) : nodes[i].id = e.v
  THEN nodes[CHOOSE i \in 1..Len(nodes) : nodes[i].id = e.v].country
  ELSE NoVal
IdToCountry(e) ==
  IF \E i \in 1..Len(nodes) : nodes[i].id = EndpointId(e)
  THEN nodes[CHOOSE i \in 1..Len(nodes) : nodes[i].id = EndpointId(e)].country
  ELSE NoVal

\* the class dim of link l while node d is hovered
LinkDim(l, d) ==
  ~(IdToCountry(l.source) = d.country /\ IdToCountry(l.target) = d.country)

MouseOver(n) ==
  /\ pc = "ready"
  /\ n \in 1..Len(nodes)
  /\ circles' = [i \in 1..Len(circles) |->
       [circles[i] EXCEPT !.dim = (nodes[i].country # nodes[n].country)]]
  /\ lines' = [i \in 1..Len(lines) |->
       [lines[i] EXCEPT !.dim = LinkDim(links[i], nodes[n])]]
  /\ hovered' = n
  /\ UNCHANGED << pc, loadVars, simVars, tipHidden, tipHtml, tipListener, lastClick >>

MouseLeaveNodesOnly ==
  /\ pc = "ready"
  /\ circles' = [i \in 1..Len(circles) |-> [circles[i] EXCEPT !.dim = FALSE]]
  /\ hovered' = 0
  /\ UNCHANGED << pc, loadVars, simVars, lines, tipHidden, tipHtml, tipListener,
                  lastClick >>
MouseLeave ==
  /\ pc = "ready"
  /\ circles' = [i \in 1..Len(circles) |-> [circles[i] EXCEPT !.dim = FALSE]]
  /\ lines' = [i \in 1..Len(lines) |-> [lines[i] EXCEPT !.dim = FALSE]]
  /\ hovered' = 0
  /\ UNCHANGED << pc, loadVars, simVars, tipHidden, tipHtml, tipListener, lastClick >>

-----------------------------------------------------------------------------
(* Drag: d3.drag().on('start' | 'drag' | 'end') *)

\* gesture g starts on node n; event.active counts the gestures already active
DragStart(g, n) ==
  /\ pc = "ready"
  /\ n \in 1..Len(nodes)
  /\ gestures[g] = 0
  /\ IF ActiveCount(gestures) = 0
     THEN alphaTarget' = ALPHA_TARGET_DRAG /\ running' = TRUE
     ELSE UNCHANGED << alphaTarget, running >>
  /\ fx' = [fx EXCEPT ![n] = Some(x[n])]
  /\ fy' = [fy EXCEPT ![n] = Some(y[n])]
  /\ gestures' = [gestures EXCEPT ![g] = n]
  /\ UNCHANGED << pc, loadVars, tipVars, circles, lines, width, height,
                  sliders, labels, forces, center, x, y, alpha >>

\* gesture g moves to point p
DraggedMovesXOnly(g, p) ==
  /\ pc = "ready"
  /\ gestures[g] # 0
  /\ fx' = [fx EXCEPT ![gestures[g]] = Some(p[1])]
  /\ UNCHANGED << pc, loadVars, tipVars, circles, lines, width, height,
                  sliders, labels, forces, center, x, y, fy, gestures,
                  alpha, alphaTarget, running >>
Dragged(g, p) ==
  /\ pc = "ready"
  /\ gestures[g] # 0
  /\ fx' = [fx EXCEPT ![gestures[g]] = Some(p[1])]
  /\ fy' = [fy EXCEPT ![gestures[g]] = Some(p[2])]
  /\ UNCHANGED << pc, loadVars, tipVars, circles, lines, width, height,
                  sliders, labels, forces, center, x, y, gestures,
                  alpha, alphaTarget, running >>

\* gesture g ends; event.active counts the gestures still active
DragEndIgnoringActive(g) ==
  /\ pc = "ready"
  /\ gestures[g] # 0
  /\ gestures' = [gestures EXCEPT ![g] = 0]
  /\ alphaTarget' = 0
  /\ fx' = [fx EXCEPT ![gestures[g]] = Null]
  /\ fy' = [fy EXCEPT ![gestures[g]] = Null]
  /\ UNCHANGED << pc, loadVars, tipVars, circles, lines, width, height,
                  sliders, labels, forces, center, x, y, alpha, running >>
DragEnd(g) ==
  /\ pc = "ready"
  /\ gestures[g] # 0
  /\ gestures' = [gestures EXCEPT ![g] = 0]
  /\ IF ActiveCount(gestures') = 0
     THEN alphaTarget' = 0
     ELSE UNCHANGED alphaTarget
  /\ fx' = [fx EXCEPT ![gestures[g]] = Null]
  /\ fy' = [fy EXCEPT ![gestures[g]] = Null]
  /\ UNCHANGED << pc, loadVars, tipVars, circles, lines, width, height,
                  sliders, labels, forces, center, x, y, alpha, running >>

-----------------------------------------------------------------------------
(* The simulation's timer step and the tick listener *)

\* One step of the running simulation.  move[i] is where the forces take node i
\* when it is free; a pinned coordinate is set to its pin.  The tick listener
\* then draws the links from the positions as they are, and clamps and draws
\* the nodes.
Tick(move) ==
  /\ pc = "ready"
  /\ running
  /\ LET a  == DecayedAlpha(alpha, alphaTarget)
         nx == [i \in 1..Len(nodes) |-> IF fx[i] = Null THEN move[i][1] ELSE fx[i][1]]
         ny == [i \in 1..Len(nodes) |-> IF fy[i] = Null THEN move[i][2] ELSE fy[i][1]]
         cx == [i \in 1..Len(nodes) |-> Clamp(nx[i], width)]
         cy == [i \in 1..Len(nodes) |-> Clamp(ny[i], height)]
     IN /\ alpha' = a
        /\ lines' = [i \in 1..Len(lines) |->
             [lines[i] EXCEPT !.x1 = nx[links[i].source.v], !.y1 = ny[links[i].source.v],
                              !.x2 = nx[links[i].target.v], !.y2 = ny[links[i].target.v]]]
        /\ x' = cx
        /\ y' = cy
        /\ circles' = [i \in 1..Len(circles) |->
             [circles[i] EXCEPT !.cx = cx[i], !.cy = cy[i]]]
        /\ running' = ~(a < ALPHA_MIN)
  /\ UNCHANGED << pc, loadVars, tipVars, width, height, sliders, labels,
                  forces, center, fx, fy, gestures, alphaTarget >>

-----------------------------------------------------------------------------
(* Sliders and resize *)

\* 'input' on the range input s, whose value is now v
SliderInputSetsTarget(s, v) ==
  /\ pc = "ready"
  /\ sliders' = [sliders EXCEPT ![s] = v]
  /\ labels' = [labels EXCEPT ![s] = ToString(v)]
  /\ forces' = [forces EXCEPT ![s] = v]
  /\ alphaTarget' = ALPHA_SLIDER
  /\ running' = TRUE
  /\ UNCHANGED << pc, loadVars, tipVars, circles, lines, width, height,
                  center, x, y, fx, fy, gestures, alpha >>
SliderInputNoRestart(s, v) ==
  /\ pc = "ready"
  /\ sliders' = [sliders EXCEPT ![s] = v]
  /\ labels' = [labels EXCEPT ![s] = ToString(v)]
  /\ forces' = [forces EXCEPT ![s] = v]
  /\ alpha' = ALPHA_SLIDER
  /\ UNCHANGED << pc, loadVars, tipVars, circles, lines, width, height,
                  center, x, y, fx, fy, gestures, alphaTarget, running >>
SliderInput(s, v) ==
  /\ pc = "ready"
  /\ sliders' = [sliders EXCEPT ![s] = v]
  /\ labels' = [labels EXCEPT ![s] = ToString(v)]
  /\ forces' = [forces EXCEPT ![s] = v]
  /\ alpha' = ALPHA_SLIDER
  /\ running' = TRUE
  /\ UNCHANGED << pc, loadVars, tipVars, circles, lines, width, height,
                  center, x, y, fx, fy, gestures, alphaTarget >>

\* window 'resize': #chart now measures v
ResizeKeepsCenter(v) ==
  /\ pc = "ready"
  /\ width' = v[1]
  /\ height' = v[2]
  /\ alpha' = ALPHA_RESIZE
  /\ running' = TRUE
  /\ UNCHANGED << pc, loadVars, tipVars, circles, lines, sliders, labels,
                  forces, center, x, y, fx, fy, gestures, alphaTarget >>
Resize(v) ==
  /\ pc = "ready"
  /\ width' = v[1]
  /\ height' = v[2]
  /\ center' = << v[1] \div 2, v[2] \div 2 >>
  /\ alpha' = ALPHA_RESIZE
  /\ running' = TRUE
  /\ UNCHANGED << pc, loadVars, tipVars, circles, lines, sliders, labels,
                  forces, x, y, fx, fy, gestures, alphaTarget >>

-----------------------------------------------------------------------------
(* Specifications *)

TipProfiles ==
  { [name |-> "Ada", affiliation |-> "MIT", country |-> "A"],
    [name |-> NoVal, affiliation |-> NoVal, country |-> "B"],
    [name |-> NoVal, affiliation |-> NoVal, country |-> NoVal] }

\* two authors, with no link, one link, or a self-loop and a link
SimGraphs ==
  { [nodes |-> << NodeOf(1, p), NodeOf(2, p) >>, links |-> ls] :
      p \in { [name |-> NoVal, affiliation |-> NoVal, country |-> "A"] },
      ls \in { << >>, << [source |-> 1, target |-> 2] >>,
               << [source |-> 2, target |-> 2], [source |-> 2, target |-> 1] >> } }

\* two authors, no link
CtlGraphs ==
  { [nodes |-> << NodeOf(1, p), NodeOf(2, p) >>, links |-> << >>] :
      p \in { [name |-> NoVal, affiliation |-> NoVal, country |-> "A"] } }

Init == InitWith(GraphsWith(TipProfiles, MaxTipLinks), Viewports)

ElevenCountries ==
  << "AR", "BR", "CA", "DE", "ES", "FR", "GB", "IN", "JP", "KR", "US" >>

\* the sequences over S of length at most n
SeqsUpTo(S, n) == UNION { [1..k -> S] : k \in 0..n }

\* authors without links whose countries are cs, in that order
GraphOfCountries(cs) ==
  [nodes |-> [i \in 1..Len(cs) |->
                NodeOf(i, [name |-> NoVal, affiliation |-> NoVal, country |-> cs[i]])],
   links |-> << >>]

\* more than ten countries: one author of each of eleven countries, and up to
\* MaxExtra more authors of the first, the tenth and the eleventh of these
\* countries before and after them
TopGraphs ==
  LET C == { ElevenCountries[i] : i \in { 1, 10, 11 } }
      E == SeqsUpTo(C, MaxExtra)
  IN { GraphOfCountries(pp[1] \o ElevenCountries \o pp[2]) :
         pp \in { qq \in E \X E : Len(qq[1]) + Len(qq[2]) <= MaxExtra } }

\* for the load: every link structure on authors of one country, every
\* assignment of countries to authors without links, and more than ten countries
LoadGraphs ==
  GraphsWith({ [name |-> NoVal, affiliation |-> NoVal, country |-> "A"] }, MaxLinks)
  \cup GraphsWith(CountryProfiles, 0)
  \cup TopGraphs

InitLoad == InitWith(LoadGraphs, { <<20, 20>> })

InitTip == InitWith(GraphsWith(TipProfiles, MaxTipLinks), { <<20, 20>> })

InitSim == InitWith(SimGraphs, Viewports)

InitCtl == InitWith(CtlGraphs, Viewports)

NextLoad ==
  \/ LoadResolved
  \/ LoadRejected

NextTip ==
  \/ LoadResolved
  \/ \E n \in 1..MaxNodes : ClickNode(n)
  \/ \E t \in { "tooltip", "outside" } : ClickElsewhere(t)
  \/ \E n \in 1..MaxNodes : MouseOver(n)
  \/ MouseLeave

\* one step of the simulation, for every place the forces may take the nodes to
Step == \E move \in [1..Len(nodes) -> PhysPoints] : Tick(move)

NextSim ==
  \/ LoadResolved
  \/ \E g \in GestureIds, n \in 1..MaxNodes : DragStart(g, n)
  \/ \E g \in GestureIds, p \in DragPoints : Dragged(g, p)
  \/ \E g \in GestureIds : DragEnd(g)
  \/ Step
  \/ \E v \in Viewports : Resize(v)

NextCtl ==
  \/ NextSim
  \/ \E s \in SliderNames : \E v \in SliderValues(s) : SliderInput(s, v)

Next ==
  \/ NextLoad
  \/ NextTip
  \/ NextCtl

Spec == Init /\ [][Next]_vars

\* the load pipeline on every bounded graph
SpecLoad == InitLoad /\ [][NextLoad]_vars

\* clicks and hovering
SpecTip == InitTip /\ [][NextTip]_vars

\* drags, ticks and resizes on two authors
SpecSim == InitSim /\ [][NextSim]_vars

\* drags, ticks, resizes and slider inputs on two authors
SpecCtl == InitCtl /\ [][NextCtl]_vars

\* two authors of two countries and their link
FrameGraphs ==
  { [nodes |-> << NodeOf(1, [name |-> NoVal, affiliation |-> NoVal, country |-> "A"]),
                  NodeOf(2, [name |-> NoVal, affiliation |-> NoVal, country |-> "B"]) >>,
     links |-> << [source |-> 1, target |-> 2] >>] }

InitFrame == InitWith(FrameGraphs, { <<20, 20>> })

NextFrame ==
  \/ LoadResolved
  \/ \E n \in 1..MaxNodes : ClickNode(n)
  \/ \E t \in { "tooltip", "outside" } : ClickElsewhere(t)
  \/ \E n \in 1..MaxNodes : MouseOver(n)
  \/ MouseLeave
  \/ \E g \in GestureIds, n \in 1..MaxNodes : DragStart(g, n)
  \/ \E g \in GestureIds : DragEnd(g)
  \/ \E s \in SliderNames : \E v \in SliderValues(s) : SliderInput(s, v)

\* slider inputs among clicks, hovering and drags, the simulation at rest
SpecFrame == InitFrame /\ [][NextFrame]_vars

\* the same, where the timer of a running simulation keeps calling its step
SpecCtlFair == SpecCtl /\ WF_vars(Step)

-----------------------------------------------------------------------------
(* Claims about the load (SpecLoad) *)

\* the number of link endpoints of the input that hold id
EndpointCount(id) ==
  Cardinality({ i \in 1..Len(raw.links) : raw.links[i].source = id })
  + Cardinality({ i \in 1..Len(raw.links) : raw.links[i].target = id })

\* C1: after the statistics deriver has run, every node's degree is the number
\* of link endpoints (source or target positions over all links) that hold the
\* node's id: a self-loop counts twice, a duplicate link counts again.
C1_DegreeCountsEndpoints ==
  pc = "ready" =>
    \A i \in 1..Len(nodes) : nodes[i].degree = EndpointCount(nodes[i].id)

\* a node whose degree is made of a duplicated self-loop, beside a node with no link
C1_Witness ==
  /\ pc = "ready"
  /\ Len(links) = 2
  /\ links[1] = links[2]
  /\ links[1].source = links[1].target
  /\ \E i, j \in 1..Len(nodes) : nodes[i].degree = 4 /\ nodes[j].degree = 0

\* C2: once the load has resolved with a well-formed graph the callback has
\* run to completion without throwing: one circle per node, one line per
\* link, the simulation created, the legend rendered exactly once.
C2_LoadCallbackCompletes ==
  pc \notin { "loading", "rejected" } =>
    /\ pc = "ready"
    /\ Len(circles) = Len(graph.nodes)
    /\ Len(lines) = Len(graph.links)
    /\ simCreated
    /\ legendRenders = 1

\* C3: when fetching or parsing the input fails, an error indication is shown;
\* the page is never left with an empty chart and no indication.
C3_LoadFailureSurfaced ==
  pc = "rejected" => errorShown

\* all nodes share one country, a missing or empty one counting as 'Unknown'
OneCountry ==
  /\ Len(nodes) >= 1
  /\ \A i, j \in 1..Len(nodes) : CountryKey(nodes[i]) = CountryKey(nodes[j])

\* C9: when all nodes share one country (a missing country being 'Unknown'),
\* the top-10 set has exactly one entry and every node is filled with the
\* same colour, which is not the fallback gray.
C9_OneCountryOneColour ==
  (pc = "ready" /\ OneCountry) =>
    /\ Cardinality(top10) = 1
    /\ \A i \in 1..Len(circles) :
         circles[i].fill = circles[1].fill /\ circles[i].fill # FALLBACK_GRAY

\* the colour of the legend swatch of country c; NoVal if c has no legend row
SwatchOf(c) ==
  IF \E r \in 1..Len(legend) : legend[r].country = c
  THEN legend[CHOOSE r \in 1..Len(legend) : legend[r].country = c].swatch
  ELSE NoVal

\* C10: a node is filled with the fallback gray exactly when its country, a
\* missing or empty one taken as 'Unknown', is not among the top-10
\* countries; otherwise its fill is the colour of that country's legend swatch.
C10_FillMatchesTop10 ==
  pc = "ready" =>
    \A i \in 1..Len(circles) :
      /\ circles[i].fill = FALLBACK_GRAY <=> CountryKey(nodes[i]) \notin top10
      /\ CountryKey(nodes[i]) \in top10 =>
           circles[i].fill = SwatchOf(CountryKey(nodes[i]))

-----------------------------------------------------------------------------
(* Claims about the tooltip (SpecTip) *)

\* C4: whatever the tooltip's state, a click on a node ends with the tooltip
\* visible and showing that node: its name (or id) first, the line
\* 'Degree: n' last, n the node's degree, a natural number; a click on no
\* node and outside the tooltip ends with the tooltip hidden.
C4_ClickShowsThenOutsideHides ==
  /\ lastClick.target = "node" =>
       LET d == raw.nodes[lastClick.node]
       IN /\ ~tipHidden
          /\ Len(tipHtml) >= 2
          /\ tipHtml[1] = "<strong>"
                \o (IF d.name # NoVal THEN d.name ELSE ToString(d.id)) \o "</strong>"
          /\ EndpointCount(d.id) \in Nat
          /\ tipHtml[Len(tipHtml)] = "Degree: " \o ToString(EndpointCount(d.id))
  /\ lastClick.target = "outside" => tipHidden

\* node clicked while the tooltip was showing another node, which has a link
C4_Witness ==
  /\ lastClick.target = "node"
  /\ lastClick.shownBefore \notin { 0, lastClick.node }
  /\ nodes[lastClick.node].degree > 0
  /\ ~tipHidden

\* C5: while the tooltip is shown, a click whose path includes the tooltip
\* element does not hide it.
C5_ClickOnTooltipKeepsIt ==
  (lastClick.target = "tooltip" /\ lastClick.shownBefore # 0) => ~tipHidden

-----------------------------------------------------------------------------
(* Claims about the simulation and the drags (SpecSim, SpecCtl) *)

\* node i is stored and drawn inside the 6px margin of the viewport
InsideMargin(i) ==
  /\ MARGIN <= x[i] /\ x[i] <= width - MARGIN
  /\ MARGIN <= y[i] /\ y[i] <= height - MARGIN
  /\ circles[i].cx = x[i] /\ circles[i].cy = y[i]

\* C6 as stated: after every tick every node's stored and rendered position
\* satisfies 6 <= x <= width-6 and 6 <= y <= height-6.
C6_TickKeepsInsideMargin ==
  [][Step => \A i \in 1..Len(nodes) : InsideMargin(i)']_vars

\* coordinate v is clamped for a viewport measuring size: never under 6,
\* never over size - 6 when the viewport has room for both margins, and on the
\* lower margin when it has not
ClampedFor(v, size) ==
  /\ MARGIN <= v
  /\ size >= 2 * MARGIN => v <= size - MARGIN
  /\ size < 2 * MARGIN => v = MARGIN

\* C6 amended: after every tick every node's stored and rendered position
\* satisfies 6 <= x and 6 <= y, and x <= width-6 (y <= height-6) when the
\* viewport is at least 12 wide (high); in a narrower viewport x (y) is 6.
\* This includes a node pinned outside the viewport.
C6_TickClamps ==
  [][Step => \A i \in 1..Len(nodes) :
       /\ ClampedFor(x[i], width)' /\ ClampedFor(y[i], height)'
       /\ (circles[i].cx = x[i])' /\ (circles[i].cy = y[i])']_vars

\* a node pinned right of and above a viewport that has room, drawn on its margin
C6_Witness ==
  \E i \in 1..Len(nodes) :
    /\ fx[i] # Null /\ fx[i][1] > width /\ fy[i][1] < 0
    /\ width >= 2 * MARGIN
    /\ x[i] = width - MARGIN /\ y[i] = MARGIN
    /\ circles[i].cx = x[i] /\ circles[i].cy = y[i]

\* C7: the alpha target is raised (0.3) in every state where at least one
\* drag gesture is active and is 0 in every state where none is, however
\* drag starts and ends interleave with slider, resize and tick events.
C7_AlphaTargetFollowsDrags ==
  /\ ActiveCount(gestures) > 0 => alphaTarget = ALPHA_TARGET_DRAG
  /\ ActiveCount(gestures) = 0 => alphaTarget = 0

\* two gestures drag two nodes at once, and a slider has been moved meanwhile
C7_Witness ==
  /\ ActiveCount(gestures) = 2
  /\ \A g, h \in GestureIds : g # h => gestures[g] # gestures[h]
  /\ alphaTarget = ALPHA_TARGET_DRAG
  /\ alpha = ALPHA_SLIDER

\* node i has a pinned position
Pinned(i) == fx[i] # Null /\ fy[i] # Null

\* some gesture is dragging node i
BeingDragged(i) == DraggingGestures(i) # { }

DragEventOn(i) ==
  \E g \in GestureIds :
    \/ DragStart(g, i)
    \/ gestures[g] = i /\ \E p \in DragPoints : Dragged(g, p)
    \/ gestures[g] = i /\ DragEnd(g)

-----------------------------------------------------------------------------
(* Claims about the sliders and the resize (SpecCtl) *)

\* C11: after each input event on any of the three sliders, in any state,
\* drags included, the slider's force parameter equals the slider's new
\* numeric value, alpha is 0.6 and the simulation is running.
C11_SliderInputSetsForce ==
  [][\A s \in SliderNames : \A v \in SliderValues(s) :
       SliderInput(s, v) =>
         /\ sliders'[s] = v
         /\ forces'[s] = sliders'[s]
         /\ alpha' = ALPHA_SLIDER
         /\ running']_vars

\* all three sliders moved off their initial value, the last during a drag
C11_Witness ==
  /\ pc = "ready"
  /\ \A s \in SliderNames :
       forces[s] = sliders[s] /\ sliders[s] # (CHOOSE v \in SliderValues(s) : TRUE)
  /\ ActiveCount(gestures) > 0
  /\ alpha = ALPHA_SLIDER
  /\ running

\* C12: the centering force's target is (width/2, height/2) of the viewport
\* size read at initialisation or at the most recent resize, over any
\* sequence of resizes, slider inputs and drags.
C12_CenterIsHalfViewport ==
  pc = "ready" => 2 * center[1] = width /\ 2 * center[2] = height

\* resized to the narrow viewport after a tick in the wide one
C12_Witness ==
  /\ pc = "ready"
  /\ width = 10 /\ height = 30
  /\ center = << 5, 15 >>
  /\ \E i \in 1..Len(nodes) : x[i] = 9

-----------------------------------------------------------------------------
(* Claims about the radius scale (SpecLoad) *)

\* C13: for a graph with at least one node and no link every node's degree is
\* 0 and every radius is the midpoint of [3, 12]; whenever all nodes have the
\* same degree the radius is that midpoint.
C13_EqualDegreesGiveMidpoint ==
  pc = "ready" =>
    /\ raw.links = << >> =>
         \A i \in 1..Len(nodes) : nodes[i].degree = 0 /\ circles[i].r = 750
    /\ (\A i, j \in 1..Len(raw.nodes) :
          EndpointCount(raw.nodes[i].id) = EndpointCount(raw.nodes[j].id)) =>
         \A i \in 1..Len(circles) : 2 * circles[i].r = RADIUS_RANGE[1] + RADIUS_RANGE[2]

\* two nodes without a link, drawn with the midpoint radius
C13_Witness ==
  /\ pc = "ready"
  /\ Len(nodes) = 2
  /\ raw.links = << >>
  /\ \A i \in 1..Len(circles) : circles[i].r = 750 /\ nodes[i].degree = 0

-----------------------------------------------------------------------------
(* Claims about hovering (SpecTip) *)

\* C14: while a node is hovered, a node is dimmed exactly when its country
\* value differs from the hovered node's, and the hovered node is not dimmed;
\* when no node is hovered, no node and no link is dimmed.
C14_DimmedIffOtherCountry ==
  pc = "ready" =>
    /\ hovered # 0 =>
         /\ \A i \in 1..Len(circles) :
              circles[i].dim <=> nodes[i].country # nodes[hovered].country
         /\ ~circles[hovered].dim
    /\ hovered = 0 =>
         /\ \A i \in 1..Len(circles) : ~circles[i].dim
         /\ \A i \in 1..Len(lines) : ~lines[i].dim

\* a node is hovered, the other node is of another country and is dimmed
C14_Witness ==
  /\ pc = "ready"
  /\ hovered # 0
  /\ \E i \in 1..Len(circles) : circles[i].dim
  /\ ~circles[hovered].dim

\* the nodes at the two ends of the link at index i of the document
SourceNode(i) == nodes[CHOOSE k \in 1..Len(nodes) : nodes[k].id = raw.links[i].source]
TargetNode(i) == nodes[CHOOSE k \in 1..Len(nodes) : nodes[k].id = raw.links[i].target]

\* C15: while a node is hovered, a link is undimmed exactly when both of its
\* endpoint nodes have the hovered node's country, and the rule gives the same
\* class for a link whose ends are identifiers as for one whose ends are node
\* references.
C15_LinkUndimmedIffBothEnds ==
  (pc = "ready" /\ hovered # 0) =>
    \A i \in 1..Len(lines) :
      /\ ~lines[i].dim <=> /\ SourceNode(i).country = nodes[hovered].country
                           /\ TargetNode(i).country = nodes[hovered].country
      /\ links[i].source.kind = "node" /\ links[i].target.kind = "node"
      /\ \A d \in 1..Len(nodes) :
           /\ LinkDim(CopyLinks(raw.links)[i], nodes[d]) = LinkDim(links[i], nodes[d])
           /\ LinkDim(links[i], nodes[d]) <=>
                ~(SourceNode(i).country = nodes[d].country
                  /\ TargetNode(i).country = nodes[d].country)

\* a node is hovered and a link between two nodes of its country is undimmed
C15_Witness ==
  /\ pc = "ready"
  /\ hovered # 0
  /\ Len(nodes) = 2
  /\ \E i \in 1..Len(lines) :
       /\ ~lines[i].dim
       /\ links[i].source # links[i].target
       /\ links[i].source.kind = "node"

-----------------------------------------------------------------------------
(* Claims about the dismiss listener (SpecTip) *)

\* C16: at most one click.tooltip listener is installed at any time; after a
\* click no listener installed by an earlier click is still installed (after a
\* click on no node none is, after a click on a node only the one that click
\* installed); and none is installed while the tooltip is hidden.
C16_OneDismissListener ==
  /\ Len(tipListener) <= 1
  /\ \A i \in 1..Len(tipListener) : tipListener[i].age = 0
  /\ lastClick.target \in { "none", "tooltip", "outside" } => tipListener = << >>
  /\ lastClick.target = "node" =>
       tipListener = << [node |-> lastClick.node, age |-> 0] >>
  /\ tipHidden => tipListener = << >>

\* a node was clicked while another node's tooltip and listener were there:
\* only the listener of the second click is installed
C16_Witness ==
  /\ lastClick.target = "node"
  /\ lastClick.shownBefore # 0
  /\ lastClick.shownBefore # lastClick.node
  /\ tipListener = << [node |-> lastClick.node, age |-> 0] >>
  /\ ~tipHidden

-----------------------------------------------------------------------------
(* Claims about the simulation's running and stopping (SpecCtlFair) *)

\* C17: while a drag gesture is active the simulation is running; a step taken
\* with no gesture active lowers alpha, or finds it under the minimum (where
\* thousandths no longer tell two values apart) and stops; and if from some point on no gesture is
\* active and nothing but the simulation's steps happens, the simulation
\* eventually stops and stays stopped.
C17_DecaysAndStopsUnlessDragged ==
  /\ [](ActiveCount(gestures) > 0 => running)
  /\ [][(Step /\ ActiveCount(gestures) = 0) =>
          \/ alpha' < alpha
          \/ alpha < ALPHA_MIN /\ alpha' < ALPHA_MIN /\ ~running']_vars
  /\ (<>[](ActiveCount(gestures) = 0) /\ <>[][Step]_vars) => <>[](~running)

\* a slider was moved, and the simulation has since decayed and stopped
C17_Witness ==
  /\ pc = "ready"
  /\ \E s \in SliderNames : forces[s] # (CHOOSE v \in SliderValues(s) : TRUE)
  /\ ActiveCount(gestures) = 0
  /\ alpha < ALPHA_MIN
  /\ ~running

-----------------------------------------------------------------------------
(* Claims about the top-ten selection (SpecLoad) *)

\* the countries of the node list, as the rollup keys them
CountryKeys == { CountryKey(raw.nodes[i]) : i \in 1..Len(raw.nodes) }
\* the number of nodes of country c, and the index of the first of them
CountOf(c) == Cardinality({ i \in 1..Len(raw.nodes) : CountryKey(raw.nodes[i]) = c })
FirstAppearance(c) ==
  CHOOSE i \in 1..Len(raw.nodes) :
    /\ CountryKey(raw.nodes[i]) = c
    /\ \A j \in 1..(i - 1) : CountryKey(raw.nodes[j]) # c
\* country c comes before country d: more nodes, or as many and seen first
Before(c, d) ==
  \/ CountOf(c) > CountOf(d)
  \/ CountOf(c) = CountOf(d) /\ FirstAppearance(c) < FirstAppearance(d)

\* C18: the sorted list holds each distinct country once with its node count,
\* by descending count and, for equal counts, in the order of first appearance
\* in the node list; the top-10 set is its first min(10, k) countries; no
\* country outside the set has more nodes than one inside; and the legend
\* lists the set's countries in that order with their counts.
C18_Top10IsStablePrefix ==
  pc = "ready" =>
    /\ Len(sortedCountries) = Cardinality(CountryKeys)
    /\ { sortedCountries[i].country : i \in 1..Len(sortedCountries) } = CountryKeys
    /\ \A i \in 1..Len(sortedCountries) :
         sortedCountries[i].n = CountOf(sortedCountries[i].country)
    /\ \A i, j \in 1..Len(sortedCountries) :
         i < j => Before(sortedCountries[i].country, sortedCountries[j].country)
    /\ top10 = { sortedCountries[i].country : i \in 1..Min(10, Len(sortedCountries)) }
    /\ Cardinality(top10) = Min(10, Cardinality(CountryKeys))
    /\ \A c \in CountryKeys \ top10 : \A d \in top10 : CountOf(c) <= CountOf(d)
    /\ Len(legend) = Min(10, Len(sortedCountries))
    /\ \A i \in 1..Len(legend) :
         /\ legend[i].country = sortedCountries[i].country
         /\ legend[i].n = CountOf(legend[i].country)

\* eleven countries: one has more authors than the others, and of the ones
\* with as many authors as the tenth the one seen last is left out
C18_Witness ==
  /\ pc = "ready"
  /\ Len(sortedCountries) = 11
  /\ Len(legend) = 10
  /\ legend[1].n > legend[2].n
  /\ sortedCountries[10].n = sortedCountries[11].n
  /\ sortedCountries[11].country \notin top10
  /\ sortedCountries[11].country # ElevenCountries[11]

-----------------------------------------------------------------------------
(* Claims about the drawn links (SpecSim) *)

\* C19: after every simulation tick the ends (x1, y1) and (x2, y2) of every
\* drawn link are the drawn centres (cx, cy) of its source and target nodes,
\* also when a node's position was clamped in that tick.
C19_LinkEndsAtNodeCentres ==
  [][Step =>
       \A i \in 1..Len(lines) :
         /\ lines'[i].x1 = circles'[links[i].source.v].cx
         /\ lines'[i].y1 = circles'[links[i].source.v].cy
         /\ lines'[i].x2 = circles'[links[i].target.v].cx
         /\ lines'[i].y2 = circles'[links[i].target.v].cy]_vars

-----------------------------------------------------------------------------
(* Claims about what a slider input leaves alone (SpecFrame) *)

\* C20: an input event of slider s leaves alone the other two sliders' force
\* parameters and labels, the centering target, the alpha target, every
\* node's pin, the dimming of nodes and links and the tooltip's state.
C20_SliderInputFrame ==
  [][\A s \in SliderNames : \A v \in SliderValues(s) :
       SliderInput(s, v) =>
         /\ \A t \in SliderNames \ { s } :
              forces'[t] = forces[t] /\ labels'[t] = labels[t]
         /\ center' = center
         /\ alphaTarget' = alphaTarget
         /\ fx' = fx /\ fy' = fy
         /\ \A i \in 1..Len(circles) : circles'[i].dim = circles[i].dim
         /\ \A i \in 1..Len(lines) : lines'[i].dim = lines[i].dim
         /\ tipHidden' = tipHidden /\ tipHtml' = tipHtml
         /\ tipListener' = tipListener]_vars

\* a slider was moved while a node was dragged, a node hovered and the tooltip
\* shown: pin, alpha target, dimming and tooltip are as they were
C20_Witness ==
  /\ pc = "ready"
  /\ alpha = ALPHA_SLIDER
  /\ forces["charge"] # forces["linkStrength"]
  /\ \E s \in SliderNames : forces[s] # (CHOOSE v \in SliderValues(s) : TRUE)
  /\ alphaTarget = ALPHA_TARGET_DRAG
  /\ \E i \in 1..Len(nodes) : fx[i] # Null
  /\ hovered # 0
  /\ \E i \in 1..Len(circles) : circles[i].dim
  /\ \E i \in 1..Len(lines) : lines[i].dim
  /\ ~tipHidden

=============================================================================
